---- MODULE Spec2Model ----
(***************************************************************************)
(* Model of process_metro_complaints.py: MetroComplaintProcessor reads a   *)
(* table of complaint records, asks a language model for four fields per   *)
(* record, and writes the result table.                                    *)
(*                                                                         *)
(* Python values are tagged records [k, v]; a string is the sequence of    *)
(* its characters, so that str.strip() and the comparison with "null" are  *)
(* computed and not assumed.  The four output columns, whose names are     *)
(* Chinese in the source, are called by the schema's names here:           *)
(*   "线路" -> line, "小区/位置" -> location, "噪音类型" -> noise_type,     *)
(*   "振动类型" -> vibration_type, "工单内容" -> content, "来电号码" -> phone *)
(***************************************************************************)
EXTENDS Integers, Sequences, FiniteSets, TLC

VARIABLES pc, model, input_file, df, idx, results, log, output_file, error

vars == <<pc, model, input_file, df, idx, results, log, output_file, error>>

----------------------------------------------------------------------------
(* Bounds of the model                                                     *)

\* longest table whose rows are all drawn freely
MaxRows == 2
\* longest table of the sparse family (one free row among skipped rows)
MaxLongRows == 21

----------------------------------------------------------------------------
(* Python values                                                           *)

None == [k |-> "None", v |-> <<>>]
NaN == [k |-> "nan", v |-> <<>>]
Str(s) == [k |-> "str", v |-> s]
Num(d) == [k |-> "num", v |-> d]

StrNull == Str(<<"n", "u", "l", "l">>)
StrUnknown == Str(<<"u", "n", "k", "n", "o", "w", "n">>)

Whitespace == {" ", "\t", "\n"}

isna(x) == x.k \in {"nan", "None"}

RECURSIVE lstrip(_)
lstrip(s) == IF s # <<>> /\ Head(s) \in Whitespace THEN lstrip(Tail(s)) ELSE s

RECURSIVE rstrip(_)
rstrip(s) ==
  IF s # <<>> /\ s[Len(s)] \in Whitespace
  THEN rstrip(SubSeq(s, 1, Len(s) - 1))
  ELSE s

strip(s) == rstrip(lstrip(s))

----------------------------------------------------------------------------
(* ComplaintInfoSchema and the model's responses                           *)

Fields == {"line", "location", "noise_type", "vibration_type"}

EmptyDict == [f \in {} |-> None]

\* what self.model.respond(...).parsed can be: the call raises ("raise"), a
\* dict ("dict", keys may be missing), a ComplaintInfoSchema object ("obj"),
\* or something with neither keys nor attributes, e.g. unparsed text ("text")
RespRaise == [kind |-> "raise", data |-> EmptyDict]
RespText == [kind |-> "text", data |-> EmptyDict]
RespDict(d) == [kind |-> "dict", data |-> d]
RespObj(o) == [kind |-> "obj", data |-> o]
NoResp == [kind |-> "none", data |-> EmptyDict]

ComplaintInfoSchema(l, p, n, v) ==
  [line |-> l, location |-> p, noise_type |-> n, vibration_type |-> v]

----------------------------------------------------------------------------
(* extract_info_from_content                                               *)

AllNone == ComplaintInfoSchema(None, None, None, None)

Returned(info, called) == [raised |-> FALSE, called |-> called, info |-> info]
Raised(called) == [raised |-> TRUE, called |-> called, info |-> AllNone]

\* mutants of convert_null: no normalisation; the wrong sentinel
convert_null_identity(value) == value

convert_null_unknown(value) == IF value = StrUnknown THEN None ELSE value

convert_null(value) == IF value = StrNull THEN None ELSE value

get(result, key) == IF key \in DOMAIN result THEN result[key] ELSE None

\* the body of the try block: read .parsed and normalise the four fields
parse_response(resp) ==
  IF resp.kind = "raise" THEN Raised(TRUE)
  ELSE IF resp.kind = "dict" THEN
    Returned(ComplaintInfoSchema(convert_null(get(resp.data, "line")),
                                 convert_null(get(resp.data, "location")),
                                 convert_null(get(resp.data, "noise_type")),
                                 convert_null(get(resp.data, "vibration_type"))),
             TRUE)
  ELSE IF resp.kind = "obj" THEN
    Returned(ComplaintInfoSchema(convert_null(resp.data.line),
                                 convert_null(resp.data.location),
                                 convert_null(resp.data.noise_type),
                                 convert_null(resp.data.vibration_type)),
             TRUE)
  ELSE Raised(TRUE)

\* mutant of except_Exception: no handler, the error propagates
except_nothing(outcome) == outcome

\* except Exception: print and return the all-None dict
except_Exception(outcome) ==
  IF outcome.raised THEN Returned(AllNone, outcome.called) ELSE outcome

\* self.model.respond: with self.model = None the attribute access raises
\* inside the try block before any request is made
respond(m, resp) ==
  IF m = "llm" THEN parse_response(resp) ELSE Raised(FALSE)

\* mutant of skip_extraction: only the missing value is skipped
skip_extraction_isna_only(content) == isna(content)

\* `pd.isna(content) or not content.strip()`: true for a missing or blank text
skip_extraction(content) ==
  isna(content) \/ (content.k = "str" /\ strip(content.v) = <<>>)

\* content.strip() on a cell that is neither missing nor a string raises
\* AttributeError, outside the try block
strip_raises(content) == ~isna(content) /\ content.k # "str"

extract_info_from_content(m, content, resp) ==
  IF isna(content) THEN Returned(AllNone, FALSE)
  ELSE IF strip_raises(content) THEN Raised(FALSE)
  ELSE IF skip_extraction(content) THEN Returned(AllNone, FALSE)
  ELSE except_Exception(respond(m, resp))

----------------------------------------------------------------------------
(* process_excel_file                                                      *)

PauseInterval == 10

\* mutant of should_pause: the 0-based index is tested
should_pause_zero_based(i) == i % PauseInterval = 0

should_pause(i) == (i + 1) % PauseInterval = 0

\* mutant of has_next: the last row is left out
has_next_off_by_one(i, n) == i < n - 1

has_next(i, n) == i < n

\* mutant of after_loop: the statistics replace the write
after_loop_statistics == "print_statistics"

after_loop == "to_excel"
after_to_excel == "print_statistics"

loop_or(i, n) == IF has_next(i, n) THEN "loop" ELSE after_loop

result_row(content, phone, info) ==
  [content |-> content, phone |-> phone,
   line |-> info.line, location |-> info.location,
   noise_type |-> info.noise_type, vibration_type |-> info.vibration_type]

\* mutant of DataFrame: rows without any extracted field are dropped
DataFrame_dropna(rows) ==
  SelectSeq(rows, LAMBDA r : \E f \in Fields : r[f] # None)

DataFrame(rows) == rows

NotWritten == [written |-> FALSE, rows |-> <<>>]

Ev(op, i, r) == [op |-> op, idx |-> i, resp |-> r]

\* mutant of _initialize_model: the connection error is swallowed
_initialize_model_swallow(ok) ==
  [model |-> IF ok THEN "llm" ELSE "None", raised |-> FALSE]

_initialize_model(ok) ==
  IF ok THEN [model |-> "llm", raised |-> FALSE]
  ELSE [model |-> "None", raised |-> TRUE]

----------------------------------------------------------------------------
(* Inputs                                                                  *)

Contents ==
  { NaN, Str(<<>>), Str(<<" ", "\t">>), Str(<<" ", "a">>), Num(<<"7">>) }

Phones == { Num(<<"1">>), Num(<<"2">>) }

Rows == [content : Contents, phone : Phones]

SkippedContents == { NaN, Str(<<>>) }

RECURSIVE TablesOfLen(_)
TablesOfLen(n) ==
  IF n = 0 THEN { <<>> }
  ELSE { Append(t, r) : t \in TablesOfLen(n - 1), r \in Rows }

ShortTables == UNION { TablesOfLen(n) : n \in 0..MaxRows }

\* n rows, all with the same skipped content, but for one free row at p
SparseTable(n, filler, p, c) ==
  [k \in 1..n |->
     IF k = p THEN [content |-> c, phone |-> Num(<<"2">>)]
     ELSE [content |-> filler, phone |-> Num(<<"1">>)]]

SparseTables ==
  { SparseTable(n, f, p, c) :
      n \in (MaxRows + 1)..MaxLongRows, f \in SkippedContents,
      p \in 1..MaxLongRows, c \in Contents }

Tables == ShortTables \cup SparseTables

StrL1 == Str(<<"L", "1">>)
StrYard == Str(<<"Y">>)
StrTrain == Str(<<"t", "r", "a", "i", "n">>)

Responses ==
  { RespRaise, RespText,
    RespDict([f \in {"line", "location", "vibration_type"} |->
                IF f = "line" THEN StrL1
                ELSE IF f = "location" THEN StrNull ELSE None]),
    RespObj(ComplaintInfoSchema(None, StrYard, StrNull, StrUnknown)),
    RespObj(ComplaintInfoSchema(StrL1, StrYard, StrTrain, StrTrain)) }

FieldVals == { None, StrNull, StrUnknown, StrL1 }

AllDicts == UNION { [D -> FieldVals] : D \in SUBSET Fields }

AllResponses ==
  { RespRaise, RespText }
    \cup { RespDict(d) : d \in AllDicts }
    \cup { RespObj(o) : o \in [Fields -> FieldVals] }

OneRowTables == UNION { TablesOfLen(n) : n \in 0..1 }

----------------------------------------------------------------------------
(* The program: main()                                                     *)

InitWith(T) ==
  /\ pc = "main"
  /\ model = "None"
  /\ input_file \in T
  /\ df = <<>>
  /\ idx = 0
  /\ results = <<>>
  /\ log = <<>>
  /\ output_file = NotWritten
  /\ error = "none"

Init == InitWith(Tables)

\* processor = MetroComplaintProcessor()
Construct ==
  /\ pc = "main"
  /\ \E ok \in BOOLEAN :
       LET r == _initialize_model(ok) IN
         /\ model' = r.model
         /\ IF r.raised
            THEN pc' = "raised" /\ error' = "init"
            ELSE pc' = "read_excel" /\ UNCHANGED error
  /\ UNCHANGED <<input_file, df, idx, results, log, output_file>>

\* df = pd.read_excel(input_file); results = []
read_excel ==
  /\ pc = "read_excel"
  /\ \E ok \in BOOLEAN :
       IF ok
       THEN /\ df' = input_file
            /\ results' = <<>>
            /\ idx' = 0
            /\ log' = Append(log, Ev("read_excel", 0, NoResp))
            /\ pc' = loop_or(0, Len(input_file))
            /\ UNCHANGED error
       ELSE /\ pc' = "raised"
            /\ error' = "read"
            /\ UNCHANGED <<df, results, idx, log>>
  /\ UNCHANGED <<model, input_file, output_file>>

\* one iteration of `for idx, row in df.iterrows()`; idx is the label of the
\* row in the RangeIndex pd.read_excel builds, i.e. its 0-based position
iteration(R) ==
  /\ pc = "loop"
  /\ \E resp \in R :
       LET row == df[idx + 1]
           content == row.content
           phone == row.phone
           out == extract_info_from_content(model, content, resp)
           called == IF out.called THEN <<Ev("respond", idx, resp)>> ELSE <<>>
           paused == IF should_pause(idx) THEN <<Ev("sleep", idx, NoResp)>> ELSE <<>>
       IN IF out.raised
          THEN /\ pc' = "raised"
               /\ error' = "record"
               /\ log' = log \o called
               /\ UNCHANGED <<results, idx>>
          ELSE /\ results' = Append(results, result_row(content, phone, out.info))
               /\ log' = log \o called \o <<Ev("append", idx, NoResp)>> \o paused
               /\ idx' = idx + 1
               /\ pc' = loop_or(idx + 1, Len(df))
               /\ UNCHANGED error
  /\ UNCHANGED <<model, input_file, df, output_file>>

\* result_df = pd.DataFrame(results); result_df.to_excel(output_file)
to_excel ==
  /\ pc = "to_excel"
  /\ \E ok \in BOOLEAN :
       IF ok
       THEN /\ output_file' = [written |-> TRUE, rows |-> DataFrame(results)]
            /\ log' = Append(log, Ev("to_excel", idx, NoResp))
            /\ pc' = after_to_excel
            /\ UNCHANGED error
       ELSE /\ pc' = "raised"
            /\ error' = "write"
            /\ UNCHANGED <<output_file, log>>
  /\ UNCHANGED <<model, input_file, df, idx, results>>

\* self._print_statistics(result_df): df['线路'] raises KeyError on the
\* column-less frame that pd.DataFrame([]) is
_print_statistics ==
  /\ pc = "print_statistics"
  /\ log' = Append(log, Ev("print_statistics", idx, NoResp))
  /\ IF Len(DataFrame(results)) = 0
     THEN pc' = "raised" /\ error' = "statistics"
     ELSE pc' = "done" /\ UNCHANGED error
  /\ UNCHANGED <<model, input_file, df, idx, results, output_file>>

Next ==
  \/ Construct
  \/ read_excel
  \/ iteration(Responses)
  \/ to_excel
  \/ _print_statistics

Spec == Init /\ [][Next]_vars

\* the same program on tables of at most one row, the model free to return
\* every combination of field values in either representation
InitNorm == InitWith(OneRowTables)

NextNorm ==
  \/ Construct
  \/ read_excel
  \/ iteration(AllResponses)
  \/ to_excel
  \/ _print_statistics

SpecNorm == InitNorm /\ [][NextNorm]_vars

----------------------------------------------------------------------------
(* Vocabulary of the properties                                            *)

At(op) == { p \in DOMAIN log : log[p].op = op }

RespondsFor(i) == { p \in At("respond") : log[p].idx = i }

ExtractedOf(row) == [f \in Fields |-> row[f]]

\* the for loop has run to its end
LoopFinished ==
  \/ pc \in {"to_excel", "print_statistics", "done"}
  \/ pc = "raised" /\ error \in {"write", "statistics"}

\* the value the model gave for field f in a parseable response
ReturnedValue(resp, f) ==
  IF f \in DOMAIN resp.data THEN resp.data[f] ELSE None

Parseable(resp) == resp.kind \in {"dict", "obj"}

Failed(resp) == resp.kind \in {"raise", "text"}

EmptyOrMissing(c) == c.k \in {"nan", "None"} \/ (c.k = "str" /\ c.v = <<>>)

HasText(c) == c.k = "str" /\ \E j \in DOMAIN c.v : c.v[j] \notin Whitespace

----------------------------------------------------------------------------
\* C1: at every point of the run the results list holds one row per record
\* processed so far, row k carrying the content and the phone of input row
\* k; once the loop has finished it holds exactly as many rows as the input
\* table, whatever the outcome of each record was.
C1_OneRowPerRecord ==
  /\ Len(results) <= Len(input_file)
  /\ Len(results) = idx
  /\ \A k \in 1..Len(results) :
       /\ results[k].content = input_file[k].content
       /\ results[k].phone = input_file[k].phone
  /\ LoopFinished => Len(results) = Len(input_file)

\* C1: a finished run of two different records, one failed at the model and
\* one skipped as empty.
C1_Witness ==
  /\ pc = "done"
  /\ Len(results) = 2
  /\ input_file[1] # input_file[2]
  /\ \E p \in At("respond") : Failed(log[p].resp)
  /\ \E k \in 1..2 : EmptyOrMissing(input_file[k].content)

\* C2 (state part): a record whose model call raised or returned something
\* unparseable has its row, with the four fields absent; the error of a
\* record that reached the model never ends the run; and two rows with the
\* same text and the same model response carry the same fields, whatever
\* happened to the records between them.
C2_Contained ==
  /\ \A p \in At("respond") :
       Failed(log[p].resp) =>
         /\ Len(results) > log[p].idx
         /\ ExtractedOf(results[log[p].idx + 1]) = AllNone
  /\ (pc = "raised" /\ error = "record") => RespondsFor(idx) = {}
  /\ \A p, q \in At("respond") :
       (/\ log[p].resp = log[q].resp
        /\ Len(results) > log[p].idx
        /\ Len(results) > log[q].idx)
       => ExtractedOf(results[log[p].idx + 1]) = ExtractedOf(results[log[q].idx + 1])

\* C2 (step part): no step changes a row already in the results list.
C2_RowsKept ==
  \A k \in 1..Len(results) : Len(results') >= k /\ results'[k] = results[k]

\* C2: a model failure for one record yields an all-absent row, is not
\* propagated, and leaves every other record's row as it is.
C2_FailureContained == [](C2_Contained) /\ [][C2_RowsKept]_vars

\* C2: a finished run where the first record failed at the model and the
\* second was extracted.
C2_Witness ==
  /\ pc = "done"
  /\ Len(results) = 2
  /\ \E p \in RespondsFor(0) : Failed(log[p].resp)
  /\ \E q \in RespondsFor(1) : Parseable(log[q].resp)
  /\ results[2].line # None

\* C3: a record whose text is empty or missing gets four absent fields and
\* no call of the model; the model is called only for a text holding a
\* non-blank character, and at most once per record.
C3_SkipWithoutCall ==
  /\ \A k \in 1..Len(results) :
       EmptyOrMissing(input_file[k].content) =>
         /\ ExtractedOf(results[k]) = AllNone
         /\ RespondsFor(k - 1) = {}
  /\ \A p \in At("respond") :
       /\ log[p].idx < Len(input_file)
       /\ HasText(input_file[log[p].idx + 1].content)
       /\ Cardinality(RespondsFor(log[p].idx)) = 1

\* C3: a finished run with an empty text, skipped, and another text sent
\* to the model.
C3_Witness ==
  /\ pc = "done"
  /\ \E k \in 1..Len(results) :
       /\ input_file[k].content = Str(<<>>)
       /\ ExtractedOf(results[k]) = AllNone
       /\ RespondsFor(k - 1) = {}
  /\ At("respond") # {}

\* C4: for a parseable response in either representation and for each of
\* the four fields, the row's field is absent when the model returned the
\* string "null" or a true null (or, in a mapping, no such key), and is the
\* returned value otherwise, whatever the other three fields are.
C4_Normalization ==
  \A p \in At("respond") :
    (Parseable(log[p].resp) /\ Len(results) > log[p].idx) =>
      \A f \in Fields :
        LET ret == ReturnedValue(log[p].resp, f)
            out == results[log[p].idx + 1][f]
        IN /\ ret = StrNull => out = None
           /\ ret = None => out = None
           /\ ret \notin {StrNull, None} => out = ret

\* C4: a structured-object response mixing "null", a true null and two
\* other strings, normalised field by field.
C4_Witness ==
  /\ pc = "done"
  /\ \E p \in RespondsFor(0) :
       log[p].resp = RespObj(ComplaintInfoSchema(StrNull, None, StrL1, StrUnknown))
  /\ ExtractedOf(results[1]) = ComplaintInfoSchema(None, None, StrL1, StrUnknown)

\* C5: the only errors that end a run are those of the model's
\* initialisation, of the table read and of the table write; no record's
\* content ends it.
C5_OnlyStartupAndIoErrorsFatal ==
  pc = "raised" => error \in {"init", "read", "write"}

\* C6: pauses happen right after the append of the 10th, 20th, ... record
\* and nowhere else, so their number is floor(processed / 10) at any point
\* and floor(N / 10) when the loop has finished.
C6_Pacing ==
  /\ Cardinality(At("sleep")) = Len(results) \div 10
  /\ \A p \in At("sleep") :
       /\ p > 1
       /\ log[p - 1].op = "append"
       /\ log[p - 1].idx = log[p].idx
       /\ (log[p].idx + 1) % 10 = 0
  /\ \A p \in At("append") :
       (log[p].idx + 1) % 10 = 0 => (p < Len(log) /\ log[p + 1].op = "sleep")
  /\ LoopFinished => Cardinality(At("sleep")) = Len(input_file) \div 10

\* C6: a finished run of at least 20 records with two pauses, the 10th
\* record having failed at the model.
C6_Witness ==
  /\ pc = "done"
  /\ Len(results) >= 20
  /\ Cardinality(At("sleep")) = 2
  /\ \E p \in RespondsFor(9) : Failed(log[p].resp)

\* C7: once the constructor has run without a connected model, the run is
\* over with the initialisation error: the table is not read, the model is
\* not called, nothing is processed and nothing is written.
C7_InitFailureAborts ==
  (pc # "main" /\ model # "llm") =>
    /\ pc = "raised"
    /\ error = "init"
    /\ log = <<>>
    /\ df = <<>>
    /\ results = <<>>
    /\ output_file = NotWritten

\* C7: the connection failed on a run whose input table has records.
C7_Witness == pc = "raised" /\ error = "init" /\ Len(input_file) > 0

\* C8: the table is written at most once, after the last append, with all N
\* rows; it is not written when the read failed; and past the write step
\* of a finished loop it is written in full, degraded rows included.
C8_WriteOnceAtEnd ==
  /\ Cardinality(At("to_excel")) <= 1
  /\ output_file.written <=> At("to_excel") # {}
  /\ ~output_file.written => output_file = NotWritten
  /\ output_file.written =>
       /\ Len(output_file.rows) = Len(input_file)
       /\ output_file.rows = results
       /\ idx = Len(input_file)
  /\ \A p \in At("to_excel") :
       /\ \A q \in At("append") \cup At("respond") \cup At("sleep") : q < p
       /\ Cardinality(At("append")) = Len(input_file)
  /\ error = "read" => ~output_file.written
  /\ (pc \in {"print_statistics", "done"} \/ error = "statistics")
       => output_file.written

\* C8: a finished run whose written table holds a degraded row next to an
\* extracted one.
C8_Witness ==
  /\ pc = "done"
  /\ output_file.written
  /\ Len(output_file.rows) = 2
  /\ \E k \in 1..2 : ExtractedOf(output_file.rows[k]) = AllNone
  /\ \E k \in 1..2 : ExtractedOf(output_file.rows[k]) # AllNone

\* C9 (as claimed): the summary step precedes the write step, i.e. when the
\* table is written the statistics have been printed.
C9_SummaryBeforeWrite ==
  \A p \in At("to_excel") : \E q \in At("print_statistics") : q < p

\* C9 (amended): the write step precedes the summary step: the statistics
\* are printed only after the table, with all rows appended, was written,
\* and a completed run has done both, in that order, as its last two steps.
C9_WriteBeforeSummary ==
  /\ \A p \in At("print_statistics") :
       /\ \E q \in At("to_excel") : q < p
       /\ \A q \in At("append") : q < p
  /\ pc = "print_statistics" => output_file.written
  /\ pc = "done" =>
       /\ Len(log) >= 2
       /\ log[Len(log)].op = "print_statistics"
       /\ log[Len(log) - 1].op = "to_excel"
       /\ Cardinality(At("append")) = Len(input_file)

\* C9: a completed run over a table with records.
C9_Witness ==
  /\ pc = "done"
  /\ Len(results) > 0
  /\ At("print_statistics") # {}
  /\ At("to_excel") # {}

\* C10 (as claimed): a field the model reports as a true null, as "null" or
\* as "unknown" is absent in the row.
C10_UnknownFormsAbsent ==
  \A p \in At("respond") :
    (Parseable(log[p].resp) /\ Len(results) > log[p].idx) =>
      \A f \in Fields :
        ReturnedValue(log[p].resp, f) \in {None, StrNull, StrUnknown}
          => results[log[p].idx + 1][f] = None

\* C10 (amended): no field of any row is the string "null"; a field the
\* model reports as a true null or as "null" is absent; the string
\* "unknown" is not a form the code normalises and stays in the row as
\* returned.
C10_OnlyNullFormsAbsent ==
  /\ \A k \in 1..Len(results) : \A f \in Fields : results[k][f] # StrNull
  /\ \A p \in At("respond") :
       (Parseable(log[p].resp) /\ Len(results) > log[p].idx) =>
         \A f \in Fields :
           LET ret == ReturnedValue(log[p].resp, f)
               out == results[log[p].idx + 1][f]
           IN /\ ret \in {None, StrNull} => out = None
              /\ ret = StrUnknown => out = StrUnknown
              /\ out # None => out = ret

\* C10: a mapping response with "null", "unknown", a missing key and a value.
C10_Witness ==
  /\ pc = "done"
  /\ \E p \in RespondsFor(0) :
       /\ log[p].resp.kind = "dict"
       /\ DOMAIN log[p].resp.data = {"line", "location", "noise_type"}
       /\ log[p].resp.data["line"] = StrNull
       /\ log[p].resp.data["location"] = StrUnknown
       /\ log[p].resp.data["noise_type"] = StrL1
  /\ ExtractedOf(results[1]) = ComplaintInfoSchema(None, StrUnknown, StrL1, None)

====
